---- MODULE Spec2Model ----
(***************************************************************************)
(* Model of the WhatsApp API service (src/src/app.ts).                     *)
(*                                                                         *)
(* The process is a single-threaded event loop: main() runs at module      *)
(* load, and afterwards every provider callback, timer callback and HTTP   *)
(* handler turn is one atomic action.  The POST /send-message handler has  *)
(* two turns, separated by `await bot.sendMessage(...)`.                   *)
(*                                                                         *)
(* Environment: the provider (an external library) emits its lifecycle     *)
(* events and serves HTTP once httpServer(+PORT) has started it, i.e. in   *)
(* the "running" phase; createBot and bot.sendMessage are external         *)
(* promises that either resolve or reject.                                 *)
(*                                                                         *)
(* src/unnamed/part_000 is a variant of the same program that differs in   *)
(* the provider options and registers no 'pairing-code' listener; its      *)
(* state transitions are those of app.ts (an event without a listener, as  *)
(* a listener that only logs, leaves the state alone).                     *)
(***************************************************************************)
EXTENDS Integers, Sequences, FiniteSets, TLC

\* ---- bounds -------------------------------------------------------------
MaxAuthFailures == 2    \* auth_failure events in one run (each schedules a timer)
MaxRequests == 2        \* HTTP requests in one run

\* ---- values -------------------------------------------------------------
Undefined == "undefined"                     \* JS undefined (absent field / env var)
PhoneValues == {Undefined, "", "593900000000"}   \* process.env.WHATSAPP_PHONE_NUMBER
NumberValues == {Undefined, "", "n1"}        \* req.body.number
MessageValues == {Undefined, "", "m1"}       \* req.body.message
SendErrors == {"e1"}                         \* message of an error thrown by the send
TypeErrorMessage == "TypeError"              \* destructuring an undefined body

\* req.body: undefined (present = FALSE), or an object whose fields may be absent
NoBody == [present |-> FALSE, number |-> Undefined, message |-> Undefined]

Bodies == {NoBody} \cup [present : {TRUE}, number : NumberValues, message : MessageValues]

\* JS truthiness of a string-or-undefined value
Truthy(v) == v \notin {Undefined, ""}

VARIABLES
    WHATSAPP_PHONE,     \* the environment variable read at module load
    pc,                 \* position of main(): start, awaitCreateBot, running, exited
    exitCode,           \* process exit code, -1 while the process lives
    configError,        \* TRUE iff validateConfig threw
    providerCreated,    \* createProvider was called
    listeners,          \* lifecycle events with a registered listener
    routes,             \* registered HTTP routes
    portBound,          \* httpServer(+PORT) was called
    connectionStatus,   \* the module-level ConnectionStatus
    timers,             \* pending setTimeout callbacks, oldest first (timer ids)
    fired,              \* ids of the timers whose callback has run
    nextTimer,          \* id of the next timer to schedule
    lastEvent,          \* the last provider lifecycle event delivered, "none" before
    everReady,          \* a 'ready' event was delivered
    nextReq,            \* id of the next HTTP request
    inflight,           \* send-message requests awaiting bot.sendMessage
    sendCalls,          \* invocations of bot.sendMessage, in order
    responses           \* HTTP responses written, in order

vars == <<WHATSAPP_PHONE, pc, exitCode, configError, providerCreated, listeners,
          routes, portBound, connectionStatus, timers, fired, nextTimer,
          lastEvent, everReady, nextReq, inflight, sendCalls, responses>>

startupVars == <<WHATSAPP_PHONE, pc, exitCode, configError, providerCreated,
                 listeners, routes, portBound>>
timerVars == <<timers, fired, nextTimer>>
eventVars == <<lastEvent, everReady>>
httpVars == <<nextReq, inflight, sendCalls, responses>>

\* ---- ConnectionStatus ---------------------------------------------------
Statuses == {"connected", "connecting", "disconnected", "error"}

ConnectionStatus == [isConnected : BOOLEAN, status : Statuses]

Connected == [isConnected |-> TRUE, status |-> "connected"]
Connecting == [isConnected |-> FALSE, status |-> "connecting"]
Disconnected == [isConnected |-> FALSE, status |-> "disconnected"]
ErrorStatus == [isConnected |-> FALSE, status |-> "error"]

\* variant: the service starts in the connecting state
InitialStatus_Connecting == [isConnected |-> FALSE, status |-> "connecting"]

InitialStatus == [isConnected |-> FALSE, status |-> "disconnected"]

LifecycleEvents == {"auth_failure", "ready", "qr", "pairing-code", "error", "close"}
RegisteredListeners == {"auth_failure", "ready", "qr", "pairing-code", "error", "close"}
RegisteredRoutes == {"GET /", "POST /send-message", "GET /status"}

\* ---- startup ------------------------------------------------------------
\* variant: tests `=== undefined` instead of falsiness
validateConfig_UndefinedOnly(phone) == IF phone = Undefined THEN "throw" ELSE "ok"

\* validateConfig: throws iff WHATSAPP_PHONE is falsy
validateConfig(phone) == IF ~Truthy(phone) THEN "throw" ELSE "ok"

Init ==
    /\ WHATSAPP_PHONE \in PhoneValues
    /\ pc = "start"
    /\ exitCode = -1
    /\ configError = FALSE
    /\ providerCreated = FALSE
    /\ listeners = {}
    /\ routes = {}
    /\ portBound = FALSE
    /\ connectionStatus = InitialStatus
    /\ timers = <<>>
    /\ fired = {}
    /\ nextTimer = 1
    /\ lastEvent = "none"
    /\ everReady = FALSE
    /\ nextReq = 1
    /\ inflight = {}
    /\ sendCalls = <<>>
    /\ responses = <<>>

\* main(), first turn: validateConfig, createProvider, the listeners, up to
\* `await createBot`; a throw is caught and the process exits with code 1
MainStart ==
    /\ pc = "start"
    /\ IF validateConfig(WHATSAPP_PHONE) = "throw"
       THEN /\ configError' = TRUE
            /\ exitCode' = 1
            /\ pc' = "exited"
            /\ UNCHANGED <<providerCreated, listeners>>
       ELSE /\ providerCreated' = TRUE
            /\ listeners' = RegisteredListeners
            /\ pc' = "awaitCreateBot"
            /\ UNCHANGED <<configError, exitCode>>
    /\ UNCHANGED <<WHATSAPP_PHONE, routes, portBound, connectionStatus>>
    /\ UNCHANGED <<timerVars, eventVars, httpVars>>

\* main(), second turn: createBot resolved; the routes, then httpServer(+PORT)
CreateBotResolves ==
    /\ pc = "awaitCreateBot"
    /\ routes' = RegisteredRoutes
    /\ portBound' = TRUE
    /\ pc' = "running"
    /\ UNCHANGED <<WHATSAPP_PHONE, exitCode, configError, providerCreated,
                   listeners, connectionStatus>>
    /\ UNCHANGED <<timerVars, eventVars, httpVars>>

\* main(), second turn: createBot rejected; caught, the process exits with 1
CreateBotRejects ==
    /\ pc = "awaitCreateBot"
    /\ exitCode' = 1
    /\ pc' = "exited"
    /\ UNCHANGED <<WHATSAPP_PHONE, configError, providerCreated, listeners,
                   routes, portBound, connectionStatus>>
    /\ UNCHANGED <<timerVars, eventVars, httpVars>>


\* ---- provider lifecycle events and the retry timer ----------------------
\* a lifecycle event is delivered to its listener
Delivered(e) ==
    /\ pc = "running"
    /\ e \in listeners
    /\ lastEvent' = e
    /\ everReady' = (everReady \/ e = "ready")
    /\ UNCHANGED <<startupVars, httpVars>>

\* variant: clears the pending timers before scheduling (one coalesced timer)
OnAuthFailure_Coalesces ==
    /\ nextTimer <= MaxAuthFailures
    /\ Delivered("auth_failure")
    /\ connectionStatus' = [isConnected |-> FALSE, status |-> "error"]
    /\ timers' = <<nextTimer>>
    /\ nextTimer' = nextTimer + 1
    /\ UNCHANGED fired

\* on('auth_failure'): error/false now, and a timer of its own
OnAuthFailure ==
    /\ nextTimer <= MaxAuthFailures
    /\ Delivered("auth_failure")
    /\ connectionStatus' = [isConnected |-> FALSE, status |-> "error"]
    /\ timers' = Append(timers, nextTimer)
    /\ nextTimer' = nextTimer + 1
    /\ UNCHANGED fired

\* variant: the callback assigns the status field only
TimerFires_KeepsFlag ==
    /\ pc = "running"
    /\ timers # <<>>
    /\ connectionStatus' = [connectionStatus EXCEPT !.status = "connecting"]
    /\ fired' = fired \cup {Head(timers)}
    /\ timers' = Tail(timers)
    /\ UNCHANGED <<startupVars, eventVars, httpVars, nextTimer>>

\* the setTimeout callback of on('auth_failure'): timers of one delay run in
\* the order they were scheduled
TimerFires ==
    /\ pc = "running"
    /\ timers # <<>>
    /\ connectionStatus' = [isConnected |-> FALSE, status |-> "connecting"]
    /\ fired' = fired \cup {Head(timers)}
    /\ timers' = Tail(timers)
    /\ UNCHANGED <<startupVars, eventVars, httpVars, nextTimer>>

OnReady ==
    /\ Delivered("ready")
    /\ connectionStatus' = [isConnected |-> TRUE, status |-> "connected"]
    /\ UNCHANGED timerVars

OnQr ==
    /\ Delivered("qr")
    /\ connectionStatus' = [isConnected |-> FALSE, status |-> "connecting"]
    /\ UNCHANGED timerVars

\* on('pairing-code'): logs the code, nothing else
OnPairingCode ==
    /\ Delivered("pairing-code")
    /\ UNCHANGED connectionStatus
    /\ UNCHANGED timerVars

\* variant: a provider error schedules the retry timer as auth_failure does
OnError_SchedulesRetry ==
    /\ nextTimer <= MaxAuthFailures
    /\ Delivered("error")
    /\ connectionStatus' = [isConnected |-> FALSE, status |-> "error"]
    /\ timers' = Append(timers, nextTimer)
    /\ nextTimer' = nextTimer + 1
    /\ UNCHANGED fired

OnError ==
    /\ Delivered("error")
    /\ connectionStatus' = [isConnected |-> FALSE, status |-> "error"]
    /\ UNCHANGED timerVars

OnClose ==
    /\ Delivered("close")
    /\ connectionStatus' = [isConnected |-> FALSE, status |-> "disconnected"]
    /\ UNCHANGED timerVars

LifecycleStep == OnAuthFailure \/ OnReady \/ OnQr \/ OnPairingCode \/ OnError \/ OnClose

\* ---- HTTP ---------------------------------------------------------------
\* a response: res.writeHead(code) and the JSON body of res.end
Response(req, route, code, kind, isConnected, status, to, details) ==
    [req |-> req, route |-> route, code |-> code, kind |-> kind,
     isConnected |-> isConnected, status |-> status, to |-> to, details |-> details]

RootResponse(req) ==
    Response(req, "GET /", 200, "root", FALSE, Undefined, Undefined, Undefined)

StatusResponse(req, cs) ==
    Response(req, "GET /status", 200, "status", cs.isConnected, cs.status,
             Undefined, Undefined)

MissingFieldsResponse(req) ==
    Response(req, "POST /send-message", 400, "missing_fields", FALSE, Undefined,
             Undefined, Undefined)

NotConnectedResponse(req) ==
    Response(req, "POST /send-message", 400, "not_connected", FALSE, "not_connected",
             Undefined, Undefined)

SuccessResponse(req, number) ==
    Response(req, "POST /send-message", 200, "success", FALSE, Undefined,
             number, Undefined)

SendErrorResponse(req, message) ==
    Response(req, "POST /send-message", 500, "send_error", FALSE, Undefined,
             Undefined, message)

\* an HTTP request reaches the handler of a registered route
Arrives(route) ==
    /\ pc = "running"
    /\ portBound
    /\ route \in routes
    /\ nextReq <= MaxRequests
    /\ nextReq' = nextReq + 1
    /\ UNCHANGED <<startupVars, eventVars>>

\* variant: a health check that answers 503 while not connected
GetRoot_Health ==
    /\ Arrives("GET /")
    /\ responses' = Append(responses,
           [RootResponse(nextReq) EXCEPT
               !.code = IF connectionStatus.isConnected THEN 200 ELSE 503])
    /\ UNCHANGED <<connectionStatus, timerVars, inflight, sendCalls>>

GetRoot ==
    /\ Arrives("GET /")
    /\ responses' = Append(responses, RootResponse(nextReq))
    /\ UNCHANGED <<connectionStatus, timerVars, inflight, sendCalls>>

GetStatus ==
    /\ Arrives("GET /status")
    /\ responses' = Append(responses, StatusResponse(nextReq, connectionStatus))
    /\ UNCHANGED <<connectionStatus, timerVars, inflight, sendCalls>>

\* variant: the connection check reads the status string
SendMessageOutcome_StatusString(body, cs) ==
    IF ~body.present THEN "throw"
    ELSE IF ~Truthy(body.number) \/ ~Truthy(body.message) THEN "missing_fields"
    ELSE IF cs.status = "disconnected" THEN "not_connected"
    ELSE "send"

\* variant: no connection check
SendMessageOutcome_NoConnectionCheck(body, cs) ==
    IF ~body.present THEN "throw"
    ELSE IF ~Truthy(body.number) \/ ~Truthy(body.message) THEN "missing_fields"
    ELSE "send"

\* variant: the connection check runs before the field check
SendMessageOutcome_ConnectionFirst(body, cs) ==
    IF ~body.present THEN "throw"
    ELSE IF ~cs.isConnected THEN "not_connected"
    ELSE IF ~Truthy(body.number) \/ ~Truthy(body.message) THEN "missing_fields"
    ELSE "send"

\* what the first turn of the POST /send-message handler decides
SendMessageOutcome(body, cs) ==
    IF ~body.present THEN "throw"
    ELSE IF ~Truthy(body.number) \/ ~Truthy(body.message) THEN "missing_fields"
    ELSE IF ~cs.isConnected THEN "not_connected"
    ELSE "send"

\* variant: no try/catch around the handler body, a throw writes no response
PostSendMessage_NoCatch(body) ==
    /\ Arrives("POST /send-message")
    /\ LET outcome == SendMessageOutcome(body, connectionStatus) IN
       CASE outcome = "throw" ->
              UNCHANGED <<responses, inflight, sendCalls>>
         [] outcome = "missing_fields" ->
              /\ responses' = Append(responses, MissingFieldsResponse(nextReq))
              /\ UNCHANGED <<inflight, sendCalls>>
         [] outcome = "not_connected" ->
              /\ responses' = Append(responses, NotConnectedResponse(nextReq))
              /\ UNCHANGED <<inflight, sendCalls>>
         [] outcome = "send" ->
              /\ sendCalls' = Append(sendCalls,
                     [req |-> nextReq, number |-> body.number, message |-> body.message])
              /\ inflight' = inflight \cup {[req |-> nextReq, number |-> body.number]}
              /\ UNCHANGED responses
    /\ UNCHANGED <<connectionStatus, timerVars>>

\* POST /send-message, first turn: up to `await bot.sendMessage(...)`
PostSendMessage(body) ==
    /\ Arrives("POST /send-message")
    /\ LET outcome == SendMessageOutcome(body, connectionStatus) IN
       CASE outcome = "throw" ->
              /\ responses' = Append(responses, SendErrorResponse(nextReq, TypeErrorMessage))
              /\ UNCHANGED <<inflight, sendCalls>>
         [] outcome = "missing_fields" ->
              /\ responses' = Append(responses, MissingFieldsResponse(nextReq))
              /\ UNCHANGED <<inflight, sendCalls>>
         [] outcome = "not_connected" ->
              /\ responses' = Append(responses, NotConnectedResponse(nextReq))
              /\ UNCHANGED <<inflight, sendCalls>>
         [] outcome = "send" ->
              /\ sendCalls' = Append(sendCalls,
                     [req |-> nextReq, number |-> body.number, message |-> body.message])
              /\ inflight' = inflight \cup {[req |-> nextReq, number |-> body.number]}
              /\ UNCHANGED responses
    /\ UNCHANGED <<connectionStatus, timerVars>>

\* POST /send-message, second turn: the send resolved
SendResolves(r) ==
    /\ pc = "running"
    /\ r \in inflight
    /\ inflight' = inflight \ {r}
    /\ responses' = Append(responses, SuccessResponse(r.req, r.number))
    /\ UNCHANGED <<startupVars, eventVars, timerVars, connectionStatus, nextReq, sendCalls>>

\* variant: the catch also records the failure in connectionStatus
SendRejects_MarksError(r, e) ==
    /\ pc = "running"
    /\ r \in inflight
    /\ inflight' = inflight \ {r}
    /\ responses' = Append(responses, SendErrorResponse(r.req, e))
    /\ connectionStatus' = [isConnected |-> FALSE, status |-> "error"]
    /\ UNCHANGED <<startupVars, eventVars, timerVars, nextReq, sendCalls>>

\* variant: the catch sends once more before answering 500
SendRejects_Retries(r, e) ==
    /\ pc = "running"
    /\ r \in inflight
    /\ inflight' = inflight \ {r}
    /\ sendCalls' = Append(sendCalls,
           CHOOSE c \in {sendCalls[i] : i \in 1..Len(sendCalls)} : c.req = r.req)
    /\ responses' = Append(responses, SendErrorResponse(r.req, e))
    /\ UNCHANGED <<startupVars, eventVars, timerVars, connectionStatus, nextReq>>

\* POST /send-message, second turn: the send rejected; the catch answers 500
SendRejects(r, e) ==
    /\ pc = "running"
    /\ r \in inflight
    /\ inflight' = inflight \ {r}
    /\ responses' = Append(responses, SendErrorResponse(r.req, e))
    /\ UNCHANGED <<startupVars, eventVars, timerVars, connectionStatus, nextReq, sendCalls>>

PostSendMessageStep == \E body \in Bodies : PostSendMessage(body)
SendResolvesStep == \E r \in inflight : SendResolves(r)
SendRejectsStep == \E r \in inflight : \E e \in SendErrors : SendRejects(r, e)

HttpStep == GetRoot \/ GetStatus \/ PostSendMessageStep \/ SendResolvesStep \/ SendRejectsStep

\* ---- specification ------------------------------------------------------
Next ==
    \/ MainStart
    \/ CreateBotResolves
    \/ CreateBotRejects
    \/ OnAuthFailure
    \/ TimerFires
    \/ OnReady
    \/ OnQr
    \/ OnPairingCode
    \/ OnError
    \/ OnClose
    \/ GetRoot
    \/ GetStatus
    \/ PostSendMessageStep
    \/ SendResolvesStep
    \/ SendRejectsStep

Spec == Init /\ [][Next]_vars

\* the event loop runs a due timer callback: a pending timer eventually fires
FairSpec == Spec /\ WF_vars(TimerFires)

\* the promise of bot.sendMessage settles, and the handler's continuation
\* then runs: a request in flight is eventually resolved or rejected
SendFairSpec == FairSpec /\ WF_vars(SendResolvesStep \/ SendRejectsStep)

TypeOK ==
    /\ connectionStatus \in ConnectionStatus
    /\ pc \in {"start", "awaitCreateBot", "running", "exited"}
    /\ nextReq \in 1..(MaxRequests + 1)
    /\ nextTimer \in 1..(MaxAuthFailures + 1)

\* ---- helpers of the properties ------------------------------------------
Last(q) == q[Len(q)]

WellFormed(body) == body.present /\ Truthy(body.number) /\ Truthy(body.message)

MissingField(body) == body.present /\ (~Truthy(body.number) \/ ~Truthy(body.message))

\* the step wrote exactly one response, to the request it handled
Answered(req) == Len(responses') = Len(responses) + 1 /\ Last(responses').req = req

Pending(t) == \E i \in 1..Len(timers) : timers[i] = t

\* ---- C1 -----------------------------------------------------------------
\* C1: a POST /send-message with a non-empty number and a non-empty message,
\* handled while isConnected is false, is answered 400 with status
\* 'not_connected', and the send primitive is not invoked for it.
C1_NotConnectedRejected ==
    [][\A body \in Bodies :
          (PostSendMessage(body) /\ WellFormed(body) /\ ~connectionStatus.isConnected)
          => /\ Answered(nextReq)
             /\ Last(responses').code = 400
             /\ Last(responses').status = "not_connected"
             /\ sendCalls' = sendCalls
             /\ inflight' = inflight]_vars

C1_Witness ==
    /\ responses # <<>>
    /\ Last(responses).code = 400
    /\ Last(responses).status = "not_connected"
    /\ ~connectionStatus.isConnected
    /\ sendCalls = <<>>

\* ---- C2 -----------------------------------------------------------------
\* C2: a POST /send-message whose body is an empty object, or lacks number,
\* or lacks message, is answered 400 with the missing-fields error in every
\* connection state (also while disconnected: never not_connected); the send
\* primitive is not invoked and ConnectionStatus is unchanged.
C2_MissingFieldsRejected ==
    [][\A body \in Bodies :
          (PostSendMessage(body) /\ MissingField(body))
          => /\ Answered(nextReq)
             /\ Last(responses').code = 400
             /\ Last(responses').kind = "missing_fields"
             /\ Last(responses').status # "not_connected"
             /\ sendCalls' = sendCalls
             /\ inflight' = inflight
             /\ connectionStatus' = connectionStatus]_vars

C2_Witness ==
    /\ responses # <<>>
    /\ Last(responses).code = 400
    /\ Last(responses).kind = "missing_fields"
    /\ ~everReady
    /\ ~connectionStatus.isConnected
    /\ sendCalls = <<>>

\* ---- C3 -----------------------------------------------------------------
\* requests whose send was invoked: those awaiting it and those answered after it
Accepted ==
    {r.req : r \in inflight} \cup
    {responses[i].req : i \in {j \in 1..Len(responses) :
        \/ responses[j].kind = "success"
        \/ responses[j].kind = "send_error" /\ responses[j].details \in SendErrors}}

\* C3: a well-formed POST /send-message handled while isConnected is true
\* invokes the send primitive exactly once with that number and message; it is
\* answered 200 (success, to = number) when the send succeeds and 500 with the
\* caught error's message when it fails; nothing retries or deduplicates, so n
\* accepted requests cause exactly n invocations.
C3_SingleForward ==
    /\ [][\A body \in Bodies :
            (PostSendMessage(body) /\ WellFormed(body) /\ connectionStatus.isConnected)
            => /\ sendCalls' = Append(sendCalls,
                      [req |-> nextReq, number |-> body.number, message |-> body.message])
               /\ responses' = responses]_vars
    /\ [][\A r \in inflight : SendResolves(r)
            => /\ Answered(r.req)
               /\ Last(responses').code = 200
               /\ Last(responses').kind = "success"
               /\ Last(responses').to = r.number
               /\ sendCalls' = sendCalls]_vars
    /\ [][\A r \in inflight : \A e \in SendErrors : SendRejects(r, e)
            => /\ Answered(r.req)
               /\ Last(responses').code = 500
               /\ Last(responses').details = e
               /\ sendCalls' = sendCalls]_vars
    /\ [](/\ Len(sendCalls) = Cardinality(Accepted)
          /\ \A i, j \in 1..Len(sendCalls) :
                sendCalls[i].req = sendCalls[j].req => i = j)

C3_Witness ==
    /\ Len(sendCalls) = 2
    /\ \E i, j \in 1..Len(responses) :
          /\ responses[i].code = 200 /\ responses[i].to = "n1"
          /\ responses[j].code = 500 /\ responses[j].details = "e1"

\* ---- C4 -----------------------------------------------------------------
\* C4: after a 'ready' event, whatever preceded it, every GET /status handled
\* before the next lifecycle event returns 200 with isConnected true and
\* status 'connected'.
C4_StatusAfterReady ==
    [][(GetStatus /\ lastEvent = "ready")
       => /\ Last(responses').code = 200
          /\ Last(responses').isConnected = TRUE
          /\ Last(responses').status = "connected"]_vars

\* ---- C5 -----------------------------------------------------------------
\* C5: after a 'close' event that follows a 'ready' event, every GET /status
\* handled before the next lifecycle event returns isConnected false and
\* status 'disconnected'.
C5_StatusAfterClose ==
    [][(GetStatus /\ lastEvent = "close" /\ everReady)
       => /\ Last(responses').isConnected = FALSE
          /\ Last(responses').status = "disconnected"]_vars

\* ---- C6 -----------------------------------------------------------------
\* C6: in every reachable state isConnected is true iff status is 'connected';
\* the only pairs are connected/true, connecting/false, disconnected/false and
\* error/false.
C6_Consistent ==
    /\ connectionStatus.isConnected <=> connectionStatus.status = "connected"
    /\ connectionStatus \in {Connected, Connecting, Disconnected, ErrorStatus}

C6_Witness ==
    /\ connectionStatus = Connecting
    /\ lastEvent = "ready"
    /\ fired # {}

\* ---- C7 -----------------------------------------------------------------
\* C7: each 'qr' event and each 'pairing-code' event sets ConnectionStatus to
\* connecting/false, from every prior state.
C7_QrAndPairingCodeConnecting ==
    [][(OnQr \/ OnPairingCode) => connectionStatus' = Connecting]_vars

\* ---- C8 -----------------------------------------------------------------
\* C8: each 'auth_failure' event sets ConnectionStatus to error/false at once
\* and schedules a timer of its own; no step but its firing removes a pending
\* timer, so k auth_failure events leave k timers pending or fired; each
\* pending timer eventually fires, and its firing sets connecting/false
\* whatever the state was.
C8_IndependentTimers ==
    /\ [][OnAuthFailure
            => /\ connectionStatus' = ErrorStatus
               /\ timers' = Append(timers, nextTimer)]_vars
    /\ [][\A t \in 1..MaxAuthFailures :
            (Pending(t) /\ ~Pending(t)')
            => /\ t \in fired' \ fired
               /\ connectionStatus' = Connecting]_vars
    /\ [](/\ Len(timers) + Cardinality(fired) = nextTimer - 1
          /\ \A t \in 1..MaxAuthFailures : ~(Pending(t) /\ t \in fired))
    /\ \A t \in 1..MaxAuthFailures : (Pending(t) ~> t \in fired)

C8_Witness ==
    /\ Len(timers) >= 2
    /\ connectionStatus = ErrorStatus

\* ---- C9 -----------------------------------------------------------------
\* C9: with WHATSAPP_PHONE_NUMBER absent or empty the process exits with code
\* 1 without having created the provider, registered a listener or a route, or
\* bound the port; with it present, configuration validation never fails.
C9_ConfigValidation ==
    /\ ~Truthy(WHATSAPP_PHONE)
         => /\ pc \in {"start", "exited"}
            /\ pc = "exited" => (exitCode = 1 /\ configError)
            /\ ~providerCreated
            /\ listeners = {}
            /\ routes = {}
            /\ ~portBound
    /\ Truthy(WHATSAPP_PHONE) => ~configError

C9_Witness ==
    /\ WHATSAPP_PHONE = ""
    /\ pc = "exited"
    /\ exitCode = 1

\* ---- C10 ----------------------------------------------------------------
\* C10: GET / is answered 200 with the same static body in every connection
\* state, pending timers or not, and leaves ConnectionStatus unchanged.
C10_RootAlways200 ==
    [][GetRoot
       => /\ Answered(nextReq)
          /\ Last(responses').code = 200
          /\ [Last(responses') EXCEPT !.req = 0] =
                Response(0, "GET /", 200, "root", FALSE, Undefined, Undefined, Undefined)
          /\ connectionStatus' = connectionStatus]_vars

C10_Witness ==
    /\ responses # <<>>
    /\ Last(responses).kind = "root"
    /\ Last(responses).code = 200
    /\ connectionStatus = ErrorStatus
    /\ timers # <<>>

\* ---- C11 ----------------------------------------------------------------
AwaitingSend(id) == \E r \in inflight : r.req = id

ResponsesTo(id) == {i \in 1..Len(responses) : responses[i].req = id}

\* C11: once the server runs, every request handled (a POST /send-message with
\* any body, a missing body included, and any outcome of the send) has exactly
\* one response, none while its send is pending and one once it has settled;
\* the code of a POST /send-message response is 200, 400 or 500; no step of
\* the handler ends the process or changes ConnectionStatus.
C11_EveryPostAnswered ==
    /\ [](\A id \in 1..(nextReq - 1) :
            Cardinality(ResponsesTo(id)) = IF AwaitingSend(id) THEN 0 ELSE 1)
    /\ [](\A i \in 1..Len(responses) :
            responses[i].route = "POST /send-message"
            => responses[i].code \in {200, 400, 500})
    /\ [][(PostSendMessageStep \/ SendResolvesStep \/ SendRejectsStep)
            => /\ connectionStatus' = connectionStatus
               /\ pc' = "running"
               /\ exitCode' = -1]_vars
    /\ \A id \in 1..MaxRequests : (AwaitingSend(id) ~> ResponsesTo(id) # {})

C11_Witness ==
    /\ pc = "running"
    /\ connectionStatus = Connected
    /\ \E i, j \in 1..Len(responses) :
          /\ responses[i].code = 500 /\ responses[i].details = TypeErrorMessage
          /\ responses[j].code = 500 /\ responses[j].details = "e1"

\* ---- C12 ----------------------------------------------------------------
\* the HTTP handlers leave ConnectionStatus and the pending timers alone, and
\* GET /status returns the current isConnected and status
HttpFrame ==
    /\ HttpStep => (connectionStatus' = connectionStatus /\ timers' = timers)
    /\ GetStatus
         => /\ Last(responses').code = 200
            /\ Last(responses').isConnected = connectionStatus.isConnected
            /\ Last(responses').status = connectionStatus.status

\* C12 as stated: ConnectionStatus changes only in a provider lifecycle event
\* step; the handlers of GET /, GET /status and POST /send-message leave
\* ConnectionStatus and the pending timers unchanged on every path, and
\* GET /status returns exactly the current isConnected and status.
C12_OnlyLifecycleEventsChange ==
    [][/\ connectionStatus' # connectionStatus => LifecycleStep
       /\ HttpFrame]_vars

\* C12 as amended: ConnectionStatus changes only in a provider lifecycle event
\* step or in the callback of a timer that an auth_failure scheduled; the rest
\* as stated.
C12_OnlyEventsAndTimersChange ==
    [][/\ connectionStatus' # connectionStatus => (LifecycleStep \/ TimerFires)
       /\ HttpFrame]_vars

C12_Witness ==
    /\ lastEvent = "auth_failure"
    /\ fired # {}
    /\ timers = <<>>
    /\ connectionStatus = Connecting
    /\ responses # <<>>
    /\ Last(responses).kind = "status"
    /\ Last(responses).status = "connecting"

\* ---- C13 ----------------------------------------------------------------
\* C13: ConnectionStatus is disconnected/false at process start and until the
\* first provider lifecycle event; a GET /status before any event returns
\* isConnected false and status 'disconnected', and a well-formed
\* POST /send-message before any 'ready' event is rejected with 400
\* not_connected.
C13_InitiallyDisconnected ==
    /\ [](lastEvent = "none" => (connectionStatus = Disconnected /\ timers = <<>>))
    /\ [][(GetStatus /\ lastEvent = "none")
            => /\ Last(responses').code = 200
               /\ Last(responses').isConnected = FALSE
               /\ Last(responses').status = "disconnected"]_vars
    /\ [][\A body \in Bodies :
            (PostSendMessage(body) /\ WellFormed(body) /\ ~everReady)
            => /\ Answered(nextReq)
               /\ Last(responses').code = 400
               /\ Last(responses').status = "not_connected"
               /\ sendCalls' = sendCalls]_vars

C13_Witness ==
    /\ lastEvent = "none"
    /\ \E i, j \in 1..Len(responses) :
          /\ responses[i].kind = "status" /\ responses[i].status = "disconnected"
          /\ responses[j].kind = "not_connected" /\ responses[j].code = 400

\* ---- C14 ----------------------------------------------------------------
\* C14: under every interleaving of lifecycle events, timer firings and
\* concurrent POST /send-message requests, the send primitive is invoked only
\* in a state where isConnected is true: the connection check and the
\* invocation are one turn, with isConnected true before and after it.
C14_SendOnlyWhenConnected ==
    [][sendCalls' # sendCalls
       => /\ connectionStatus.isConnected
          /\ connectionStatus'.isConnected
          /\ Len(sendCalls') = Len(sendCalls) + 1
          /\ PostSendMessageStep]_vars

C14_Witness ==
    /\ Len(sendCalls) = 2
    /\ Cardinality(inflight) = 1
    /\ fired # {}
    /\ ~connectionStatus.isConnected

\* ---- C15 ----------------------------------------------------------------
\* C15: a provider 'error' event sets ConnectionStatus to error/false and
\* schedules no timer; with no timer pending the state stays error/false, and
\* every well-formed POST /send-message is rejected with 400 not_connected,
\* until the next provider lifecycle event.
C15_ErrorIsSticky ==
    /\ [][OnError
            => /\ connectionStatus' = ErrorStatus
               /\ timers' = timers
               /\ nextTimer' = nextTimer]_vars
    /\ [][(lastEvent = "error" /\ connectionStatus = ErrorStatus /\ timers = <<>>
                /\ ~LifecycleStep)
            => (connectionStatus' = ErrorStatus /\ timers' = <<>>)]_vars
    /\ [][\A body \in Bodies :
            (PostSendMessage(body) /\ WellFormed(body)
                /\ lastEvent = "error" /\ connectionStatus = ErrorStatus)
            => /\ Answered(nextReq)
               /\ Last(responses').code = 400
               /\ Last(responses').status = "not_connected"
               /\ sendCalls' = sendCalls]_vars

C15_Witness ==
    /\ lastEvent = "error"
    /\ everReady
    /\ timers = <<>>
    /\ connectionStatus = ErrorStatus
    /\ responses # <<>>
    /\ Last(responses).kind = "not_connected"

====
